---- MODULE Spec2Model ----
(***************************************************************************)
(* Company batch-ingestion service: the BatchProcessor of package          *)
(* middleware (src/README.md, from line 42) over a MongoDB collection, and  *)
(* the HTTP server and process lifecycle of src/cashing/main.go.            *)
(*                                                                          *)
(* The collection is a sequence of documents in insertion order.  Each      *)
(* HTTP request runs in its own goroutine; store calls of different         *)
(* requests interleave at the granularity the store gives: one document     *)
(* update is atomic, an upsert that matches nothing is a match step         *)
(* followed by an insert step, and the operations of an unordered bulk      *)
(* write run in any order.                                                  *)
(***************************************************************************)
EXTENDS Integers, Sequences, FiniteSets, TLC

\* ---------------------------------------------------------------- bounds
NumNames == 2
NumAddrs == 2
MaxBatch == 2          \* records in one batch
MaxConc == 1           \* records in a batch that runs beside another request
MaxCall == 0           \* records in a batch handed to ProcessBatch directly
MainBatch == 1         \* records in a batch, in the runs that end the process
NumReqs == 2

Names == 1 .. NumNames        \* company names, in ascending string order
Addrs == 1 .. NumAddrs
Reqs == 1 .. NumReqs          \* request goroutines that can be in flight
EmptyName == 0                \* the empty string (missing query parameter)

\* type Company struct { Name, Address, Treated }
Company == [name : Names, address : Addrs, treated : BOOLEAN]

Batches == UNION {[1 .. n -> Company] : n \in 0 .. MaxBatch}

\* a request body: either JSON that does not decode, or a CompanyRequest
Bodies == {[ok |-> FALSE, companies |-> << >>]}
            \cup {[ok |-> TRUE, companies |-> B] : B \in Batches}

VARIABLES
    store,       \* the collection: documents in insertion order
    healthy,     \* Server.healthy (atomic.Bool)
    rq,          \* per request goroutine: position, inputs, store call state, response
    mainPc,      \* main goroutine: "listen" | "returning" | "exited"
    sigPc,       \* signal goroutine: "wait" | "shutdown" | "close" | "end"
    listening,   \* the http.Server accepts new connections
    closeCount,  \* number of BatchProcessor.Close invocations
    lastHealth,  \* history: outcome of the health check that completed last
    hist         \* history of the current call, recorded in sequential runs

vars == <<store, healthy, rq, mainPc, sigPc, listening, closeCount, lastHealth, hist>>
life == <<mainPc, sigPc, listening, closeCount>>

\* ------------------------------------------------------- store primitives

\* the index on {name: 1}: options.Index().SetUnique(true)
\* (UniqueIndexOff: the index created without SetUnique)
UniqueIndexOff == FALSE
UniqueIndex == TRUE

\* options.BulkWrite().SetOrdered(false)
\* (OrderedOn: the bulk write left ordered, the driver's default)
OrderedOn == TRUE
Ordered == FALSE

\* index of the first document the filter {name: nm} matches, 0 if none
MatchIndex(s, nm) ==
    IF \E i \in DOMAIN s : s[i].name = nm
    THEN CHOOSE i \in DOMAIN s : s[i].name = nm /\ \A j \in 1 .. (i - 1) : s[j].name # nm
    ELSE 0

\* the update {$set: {name, address, treated}} applied to a matched document
\* (SetAllKeepTreated: the $set without the treated field)
SetAllKeepTreated(old, c) == [name |-> c.name, address |-> c.address, treated |-> old.treated]
SetAll(old, c) == [old EXCEPT !.name = c.name, !.address = c.address, !.treated = c.treated]

\* the collection after the matched document m has been updated in place to d
\* (ReplaceAtEnd: the document deleted and inserted anew instead;
\*  RemoveAt: the document deleted and not written back)
RemoveAt(s, m, d) == SubSeq(s, 1, m - 1) \o SubSeq(s, m + 1, Len(s))
ReplaceAtEnd(s, m, d) == SubSeq(s, 1, m - 1) \o SubSeq(s, m + 1, Len(s)) \o <<d>>
UpdateAt(s, m, d) == [s EXCEPT ![m] = d]

\* the update {$set: {treated: true}} applied to a matched document
\* (SetTreatedAndAddress: a $set that also rewrites the address)
SetTreatedAndAddress(old) == [old EXCEPT !.treated = TRUE, !.address = 1]
SetTreated(old) == [old EXCEPT !.treated = TRUE]

\* the client is connected until Close disconnects it
Connected == closeCount = 0

\* Find with SetSort({name: 1}): a stable sort of the collection by name
InsertSorted(s, d) ==
    LET k == Cardinality({i \in DOMAIN s : s[i].name <= d.name})
    IN  SubSeq(s, 1, k) \o <<d>> \o SubSeq(s, k + 1, Len(s))

RECURSIVE SortAsc(_)
SortAsc(s) ==
    IF Len(s) = 0 THEN << >>
    ELSE InsertSorted(SortAsc(SubSeq(s, 1, Len(s) - 1)), s[Len(s)])

\* (NoSort: the Find without SetSort, in insertion order)
NoSort(s) == s
SortByName(s) == SortAsc(s)

\* --------------------------------------------------------------- requests

Idle == [pc |-> "idle", kind |-> "none", via |-> "none", body |-> "none", batch |-> << >>,
         ops |-> << >>, name |-> EmptyName, ping |-> FALSE, calls |-> 0,
         n |-> 0, err |-> "nil", status |-> 0, data |-> << >>]

Terminal(s) == s \in {"same", "modified", "upserted", "rejected", "lost"}

Count(ops, s) == Cardinality({i \in DOMAIN ops : ops[i] = s})

\* the status the transport adapter maps a BatchProcessor error to
\* (NoOpIsOk: an adapter that answers 200 to the no-op error)
NoOpIsOk(via, err) ==
    IF via # "http" THEN 0 ELSE IF err \in {"nil", "noop"} THEN 200 ELSE 500
StatusOf(via, err) == IF via # "http" THEN 0 ELSE IF err = "nil" THEN 200 ELSE 500

Finish(q, n, err) ==
    [q EXCEPT !.pc = "done", !.n = n, !.err = err, !.status = StatusOf(q.via, err)]

Respond(q, code) == [q EXCEPT !.pc = "done", !.status = code]

\* if len(companies) == 0 { return 0, nil }
\* (NeverEmpty: ProcessBatch without that check)
NeverEmpty(B) == FALSE
IsEmptyBatch(B) == Len(B) = 0

\* totalModified := int(result.ModifiedCount + result.UpsertedCount)
\* (ModifiedOnly: the count without UpsertedCount)
ModifiedOnly(ops) == Count(ops, "modified")
TotalModified(ops) == Count(ops, "modified") + Count(ops, "upserted")

\* BatchProcessor.ProcessBatch up to the point where BulkWrite is under way
ProcessBatchEnter(q, B) ==
    IF IsEmptyBatch(B)
    THEN Finish([q EXCEPT !.batch = B], 0, "nil")
    ELSE IF Len(B) = 0
    THEN \* the driver refuses an empty list of write models
         Finish([q EXCEPT !.batch = B, !.calls = 1], 0, "batchEmpty")
    ELSE [q EXCEPT !.pc = "bulk", !.batch = B, !.calls = 1,
                   !.ops = [i \in 1 .. Len(B) |-> "pending"]]

\* what a request body is: JSON that does not decode, a request with no
\* companies, or a request with a list of companies
BodyClass(body) ==
    IF ~body.ok THEN "invalid" ELSE IF Len(body.companies) = 0 THEN "empty" ELSE "list"

\* the checks of batchUploadHandler in their order: the status it rejects the
\* request with, 0 if it rejects it not
\* (DecodeFirst: the body checked before the healthy flag)
DecodeFirst(h, body) ==
    IF ~body.ok THEN 400
    ELSE IF Len(body.companies) = 0 THEN 400
    ELSE IF ~h THEN 503
    ELSE 0
Rejection(h, body) ==
    IF ~h THEN 503
    ELSE IF ~body.ok THEN 400
    ELSE IF Len(body.companies) = 0 THEN 400
    ELSE 0

\* Server.batchUploadHandler, up to the call of ProcessBatch
batchUploadHandler(r) ==
    /\ rq[r].pc = "idle"
    /\ listening
    /\ \E body \in Bodies :
         LET q == [Idle EXCEPT !.kind = "batch", !.via = "http", !.body = BodyClass(body)]
         IN  rq' = [rq EXCEPT ![r] =
                      IF Rejection(healthy, body) # 0
                      THEN Respond(q, Rejection(healthy, body))
                      ELSE ProcessBatchEnter(q, body.companies)]
    /\ UNCHANGED <<store, healthy, life>>

\* a caller of package middleware invoking ProcessBatch directly
CallProcessBatch(r) ==
    /\ rq[r].pc = "idle"
    /\ mainPc = "listen"
    /\ \E B \in {b \in Batches : Len(b) <= MaxCall} :
         rq' = [rq EXCEPT ![r] =
                  ProcessBatchEnter([Idle EXCEPT !.kind = "batch", !.via = "api"], B)]
    /\ UNCHANGED <<store, healthy, life>>

\* an ordered bulk write runs its operations in order and stops at the first error
CanRun(ops, i) ==
    Ordered => /\ \A j \in 1 .. (i - 1) : Terminal(ops[j])
               /\ \A j \in DOMAIN ops : ops[j] # "rejected"

\* BulkWrite is over once every operation has run (an ordered one: or once an
\* operation has been refused)
BulkOver(ops) ==
    \/ \A j \in DOMAIN ops : Terminal(ops[j])
    \/ /\ Ordered
       /\ \E j \in DOMAIN ops : ops[j] = "rejected"
       /\ \A j \in DOMAIN ops : ops[j] # "insert"

\* the operations that have not run when BulkWrite returns are not applied
Unrun(ops) == [j \in DOMAIN ops |-> IF Terminal(ops[j]) THEN ops[j] ELSE "lost"]

\* return 0, fmt.Errorf("failed to execute bulk write: %v", err)
\* (PartialCount: the count of the operations applied, returned with the error)
PartialCount(ops) == TotalModified(ops)
FailedCount(ops) == 0

\* request q after one of its operations has run: when that ends the bulk
\* write, BulkWrite returns (a BulkWriteException if an operation was refused,
\* a transport error if the reply is lost) and ProcessBatch and the handler
\* map its result
Settle(q, replyLost) ==
    IF ~BulkOver(q.ops) THEN q
    ELSE LET u == [q EXCEPT !.ops = Unrun(q.ops)]
         IN  IF replyLost THEN Finish(u, FailedCount(u.ops), "batchConn")
             ELSE IF Count(u.ops, "rejected") > 0 THEN Finish(u, FailedCount(u.ops), "batchWrite")
             ELSE Finish(u, TotalModified(u.ops), "nil")

\* the reply of BulkWrite can only be lost once the bulk write is over
Replies(q) == IF BulkOver(q.ops) THEN BOOLEAN ELSE {FALSE}

\* one upsert of the bulk write looks for the document its filter matches and,
\* if there is one, updates it
UpsertMatch(r, i) ==
    LET q == rq[r]
        c == q.batch[i]
        m == MatchIndex(store, c.name)
        d == SetAll(store[m], c)
        after == [q EXCEPT !.ops[i] = IF m = 0 THEN "insert"
                                      ELSE IF d = store[m] THEN "same" ELSE "modified"]
    IN  /\ q.pc = "bulk"
        /\ mainPc # "exited"
        /\ Connected
        /\ q.ops[i] = "pending"
        /\ CanRun(q.ops, i)
        /\ store' = IF m = 0 THEN store ELSE UpdateAt(store, m, d)
        /\ \E lost \in Replies(after) : rq' = [rq EXCEPT ![r] = Settle(after, lost)]
        /\ UNCHANGED <<healthy, life>>

\* an upsert that matched nothing inserts its document; the unique index
\* refuses a second document of the same name, and the server then either
\* reports a duplicate key error for the operation or runs the upsert again
UpsertInsert(r, i) ==
    LET q == rq[r]
        c == q.batch[i]
        dup == UniqueIndex /\ MatchIndex(store, c.name) # 0
    IN  /\ q.pc = "bulk"
        /\ mainPc # "exited"
        /\ Connected
        /\ q.ops[i] = "insert"
        /\ store' = IF dup THEN store ELSE Append(store, c)
        /\ \E s \in (IF dup THEN {"rejected", "pending"} ELSE {"upserted"}) :
             LET after == [q EXCEPT !.ops[i] = s]
             IN  \E lost \in Replies(after) : rq' = [rq EXCEPT ![r] = Settle(after, lost)]
        /\ UNCHANGED <<healthy, life>>

\* the store refuses one operation of the bulk write (a write error)
UpsertReject(r, i) ==
    LET q == rq[r]
        after == [q EXCEPT !.ops[i] = "rejected"]
    IN  /\ q.pc = "bulk"
        /\ mainPc # "exited"
        /\ Connected
        /\ q.ops[i] = "pending"
        /\ CanRun(q.ops, i)
        /\ \E lost \in Replies(after) : rq' = [rq EXCEPT ![r] = Settle(after, lost)]
        /\ UNCHANGED <<store, healthy, life>>

\* BulkWrite fails as a whole while operations are still to run (connection
\* lost, context deadline, client disconnected): those are not applied
BulkAbort(r) ==
    LET q == rq[r]
    IN  /\ q.pc = "bulk"
        /\ mainPc # "exited"
        /\ rq' = [rq EXCEPT ![r] =
                    Finish([q EXCEPT !.ops = Unrun(q.ops)], FailedCount(Unrun(q.ops)), "batchConn")]
        /\ UNCHANGED <<store, healthy, life>>

\* Server.updateTreatedHandler with BatchProcessor.UpdateTreatedField
updateTreatedHandler(r) ==
    /\ rq[r].pc = "idle"
    /\ listening
    /\ \E nm \in Names \cup {EmptyName}, ok \in BOOLEAN, applied \in BOOLEAN :
         LET q == [Idle EXCEPT !.kind = "update", !.via = "http", !.name = nm]
             c == [q EXCEPT !.calls = 1]
             m == MatchIndex(store, nm)
             upd == IF m = 0 THEN store ELSE UpdateAt(store, m, SetTreated(store[m]))
         IN  IF nm = EmptyName
             THEN /\ ok /\ applied
                  /\ rq' = [rq EXCEPT ![r] = Respond(q, 400)]
                  /\ UNCHANGED store
             ELSE IF ~(ok /\ Connected)
             THEN \* UpdateOne returns an error; the write may or may not have landed
                  /\ ~ok
                  /\ rq' = [rq EXCEPT ![r] = Finish(c, 0, "update")]
                  /\ store' = IF applied /\ Connected THEN upd ELSE store
             ELSE /\ applied
                  /\ store' = upd
                  /\ rq' = [rq EXCEPT ![r] =
                              IF m = 0 THEN Finish(c, 0, "notfound")
                              ELSE IF upd = store THEN Finish(c, 0, "noop")
                              ELSE Finish(c, 0, "nil")]
    /\ UNCHANGED <<healthy, life>>

\* Server.fetchAllCompaniesHandler with BatchProcessor.FetchAllCompanies
fetchAllCompaniesHandler(r) ==
    /\ rq[r].pc = "idle"
    /\ listening
    /\ \E ok \in BOOLEAN :
         LET q == [Idle EXCEPT !.kind = "fetch", !.via = "http", !.calls = 1]
         IN  rq' = [rq EXCEPT ![r] =
                      IF ok /\ Connected
                      THEN Finish([q EXCEPT !.data = SortByName(store)], 0, "nil")
                      ELSE Finish(q, 0, "query")]
    /\ UNCHANGED <<store, healthy, life>>

\* Server.healthCheckHandler: BatchProcessor.HealthCheck pings the primary
HealthPing(r) ==
    /\ rq[r].pc = "idle"
    /\ listening
    /\ \E ok \in BOOLEAN :
         rq' = [rq EXCEPT ![r] =
                  [Idle EXCEPT !.kind = "health", !.via = "http", !.pc = "ping",
                               !.calls = 1, !.ping = ok /\ Connected]]
    /\ UNCHANGED <<store, healthy, life>>

\* s.healthy.Store(false) on a ping error, s.healthy.Store(true) otherwise
\* (StoreOnlyFalse: the handler without s.healthy.Store(true))
StoreOnlyFalse(cur, ok) == cur /\ ok
HealthyAfter(cur, ok) == ok

\* Server.healthCheckHandler: the flag is stored and the response sent
HealthStore(r) ==
    /\ rq[r].pc = "ping"
    /\ mainPc # "exited"
    /\ healthy' = HealthyAfter(healthy, rq[r].ping)
    /\ rq' = [rq EXCEPT ![r] = Respond(rq[r], IF rq[r].ping THEN 200 ELSE 503)]
    /\ UNCHANGED <<store, life>>

\* the handler returns and the goroutine serves the next request
Return(r) ==
    /\ rq[r].pc = "done"
    /\ mainPc # "exited"
    /\ rq' = [rq EXCEPT ![r] = Idle]
    /\ UNCHANGED <<store, healthy, life>>

\* ----------------------------------------------------------- the service

NoHist == [pre |-> << >>, nchg |-> 0, second |-> FALSE,
           prevOn |-> FALSE, prevB |-> << >>, prevPost |-> << >>,
           retryOn |-> FALSE, retryB |-> << >>, retryPre |-> << >>]

\* NewBatchProcessor and NewServer have run; main is in ListenAndServe
Init ==
    /\ store = << >>
    /\ healthy = TRUE
    /\ rq = [r \in Reqs |-> Idle]
    /\ mainPc = "listen"
    /\ sigPc = "wait"
    /\ listening = TRUE
    /\ closeCount = 0
    /\ lastHealth = "none"
    /\ hist = NoHist

\* history: the outcome of the health check that completed in this step
ObserveHealth(r) ==
    lastHealth' = IF rq[r].pc = "ping" /\ rq'[r].pc = "done"
                  THEN (IF rq[r].ping THEN "ok" ELSE "fail")
                  ELSE lastHealth

\* requests that run beside another request carry at most MaxConc records
InFlight(q) == {r \in Reqs : q[r].pc # "idle"}
Solo(q) == Cardinality(InFlight(q)) <= 1
Room(q) == Solo(q) \/ \A r \in Reqs : Len(q[r].batch) <= MaxConc

Conc(r) == Room(rq') /\ ObserveHealth(r) /\ UNCHANGED hist

Next ==
    \E r \in Reqs :
        \/ batchUploadHandler(r) /\ Conc(r)
        \/ CallProcessBatch(r) /\ Conc(r)
        \/ (\E i \in DOMAIN rq[r].ops : UpsertMatch(r, i)) /\ Conc(r)
        \/ (\E i \in DOMAIN rq[r].ops : UpsertInsert(r, i)) /\ Conc(r)
        \/ (\E i \in DOMAIN rq[r].ops : UpsertReject(r, i)) /\ Conc(r)
        \/ BulkAbort(r) /\ Conc(r)
        \/ updateTreatedHandler(r) /\ Conc(r)
        \/ fetchAllCompaniesHandler(r) /\ Conc(r)
        \/ HealthPing(r) /\ Conc(r)
        \/ HealthStore(r) /\ Conc(r)
        \/ Return(r) /\ Conc(r)

Spec == Init /\ [][Next]_vars

\* ------------------------------------------------- one caller at a time

OthersIdle(r) == \A o \in Reqs \ {r} : rq[o].pc = "idle"

\* the names of the batch B are pairwise distinct
DistinctNames(B) == \A i, j \in DOMAIN B : B[i].name = B[j].name => i = j

\* history of the call under way: the collection when it started, the number
\* of its steps that changed the collection, and the last ProcessBatch that
\* succeeded with nothing else run since (a second call of the same batch
\* right after it keeps the record of the first); and the batch of distinct
\* names whose call failed and has only been submitted again since, no other
\* writer having run, with the collection that first call started from
ObserveCall(r) ==
    LET q == rq'[r]
        chg == IF store' # store THEN 1 ELSE 0
    IN  hist' =
          IF rq[r].pc = "idle"
          THEN LET again == /\ hist.prevOn
                            /\ q.pc = "bulk"
                            /\ q.batch = hist.prevB
                   retry == /\ hist.retryOn
                            /\ \/ q.kind \in {"fetch", "health"}
                               \/ q.pc = "bulk" /\ q.batch = hist.retryB
               IN  [pre |-> store, nchg |-> chg, second |-> again, prevOn |-> again,
                    prevB |-> IF again THEN hist.prevB ELSE << >>,
                    prevPost |-> IF again THEN hist.prevPost ELSE << >>,
                    retryOn |-> retry,
                    retryB |-> IF retry THEN hist.retryB ELSE << >>,
                    retryPre |-> IF retry THEN hist.retryPre ELSE << >>]
          ELSE IF rq[r].pc = "bulk" /\ q.pc = "done"
          THEN IF q.err # "nil"
               THEN LET first == ~hist.retryOn /\ DistinctNames(q.batch)
                    IN  [hist EXCEPT !.nchg = @ + chg, !.prevOn = FALSE,
                                     !.prevB = << >>, !.prevPost = << >>,
                                     !.retryOn = @ \/ first,
                                     !.retryB = IF first THEN q.batch ELSE @,
                                     !.retryPre = IF first THEN hist.pre ELSE @]
               ELSE IF hist.second THEN [hist EXCEPT !.nchg = @ + chg]
               ELSE [hist EXCEPT !.nchg = @ + chg, !.prevOn = TRUE,
                                 !.prevB = q.batch, !.prevPost = store']
          ELSE IF rq[r].pc = "done" /\ rq[r].kind = "batch" /\ rq[r].err = "nil"
          THEN [hist EXCEPT !.nchg = @ + chg, !.retryOn = FALSE,
                            !.retryB = << >>, !.retryPre = << >>]
          ELSE [hist EXCEPT !.nchg = @ + chg]

Alone(r) == ObserveHealth(r) /\ ObserveCall(r)

NextSeq ==
    \E r \in Reqs :
        \/ OthersIdle(r) /\ batchUploadHandler(r) /\ Alone(r)
        \/ OthersIdle(r) /\ CallProcessBatch(r) /\ Alone(r)
        \/ OthersIdle(r) /\ (\E i \in DOMAIN rq[r].ops : UpsertMatch(r, i)) /\ Alone(r)
        \/ OthersIdle(r) /\ (\E i \in DOMAIN rq[r].ops : UpsertInsert(r, i)) /\ Alone(r)
        \/ OthersIdle(r) /\ (\E i \in DOMAIN rq[r].ops : UpsertReject(r, i)) /\ Alone(r)
        \/ OthersIdle(r) /\ BulkAbort(r) /\ Alone(r)
        \/ OthersIdle(r) /\ updateTreatedHandler(r) /\ Alone(r)
        \/ OthersIdle(r) /\ fetchAllCompaniesHandler(r) /\ Alone(r)
        \/ OthersIdle(r) /\ HealthPing(r) /\ Alone(r)
        \/ OthersIdle(r) /\ HealthStore(r) /\ Alone(r)
        \/ OthersIdle(r) /\ Return(r) /\ Alone(r)

SpecSeq == Init /\ [][NextSeq]_vars

\* ------------------------------------------------------ process lifecycle

\* SIGINT or SIGTERM arrives: the signal goroutine calls httpServer.Shutdown,
\* which closes the listeners, and ListenAndServe returns ErrServerClosed
Signal ==
    /\ mainPc = "listen"
    /\ sigPc = "wait"
    /\ sigPc' = "shutdown"
    /\ listening' = FALSE
    /\ mainPc' = "returning"
    /\ UNCHANGED <<store, healthy, rq, closeCount>>

\* httpServer.Shutdown returns: every connection is idle, or its 30 s ran out
ShutdownReturn ==
    /\ mainPc # "exited"
    /\ sigPc = "shutdown"
    /\ sigPc' = "close"
    /\ UNCHANGED <<store, healthy, rq, mainPc, listening, closeCount>>

\* bp.Close(ctx) in the signal goroutine
Close ==
    /\ mainPc # "exited"
    /\ sigPc = "close"
    /\ closeCount' = closeCount + 1
    /\ sigPc' = "end"
    /\ UNCHANGED <<store, healthy, rq, mainPc, listening>>

\* main returns after ListenAndServe returned ErrServerClosed: the process
\* exits and takes every goroutine with it
MainReturn ==
    /\ mainPc = "returning"
    /\ mainPc' = "exited"
    /\ rq' = [r \in Reqs |-> Idle]
    /\ UNCHANGED <<store, healthy, sigPc, listening, closeCount>>

\* ListenAndServe returns another error: log.Fatal exits the process
ServeError ==
    /\ mainPc = "listen"
    /\ sigPc = "wait"
    /\ mainPc' = "exited"
    /\ listening' = FALSE
    /\ rq' = [r \in Reqs |-> Idle]
    /\ UNCHANGED <<store, healthy, sigPc, closeCount>>

Small(q) == \A r \in Reqs : Len(q[r].batch) <= MainBatch

One(r) == Small(rq') /\ ObserveHealth(r) /\ UNCHANGED hist
Keep == UNCHANGED <<lastHealth, hist>>

NextMain ==
    \/ Signal /\ Keep
    \/ ShutdownReturn /\ Keep
    \/ Close /\ Keep
    \/ MainReturn /\ Keep
    \/ ServeError /\ Keep
    \/
       \E r \in Reqs :
           \/ OthersIdle(r) /\ batchUploadHandler(r) /\ One(r)
           \/ OthersIdle(r) /\ CallProcessBatch(r) /\ One(r)
           \/ OthersIdle(r) /\ (\E i \in DOMAIN rq[r].ops : UpsertMatch(r, i)) /\ One(r)
           \/ OthersIdle(r) /\ (\E i \in DOMAIN rq[r].ops : UpsertInsert(r, i)) /\ One(r)
           \/ OthersIdle(r) /\ (\E i \in DOMAIN rq[r].ops : UpsertReject(r, i)) /\ One(r)
           \/ OthersIdle(r) /\ BulkAbort(r) /\ One(r)
           \/ OthersIdle(r) /\ updateTreatedHandler(r) /\ One(r)
           \/ OthersIdle(r) /\ fetchAllCompaniesHandler(r) /\ One(r)
           \/ OthersIdle(r) /\ HealthPing(r) /\ One(r)
           \/ OthersIdle(r) /\ HealthStore(r) /\ One(r)
           \/ OthersIdle(r) /\ Return(r) /\ One(r)

SpecMain == Init /\ [][NextMain]_vars

\* ------------------------------------------------------------ properties

\* a ProcessBatch call of request r that reached BulkWrite and has returned
BatchDone(r) == rq[r].pc = "done" /\ rq[r].kind = "batch" /\ rq[r].calls > 0
BatchOk(r) == BatchDone(r) /\ rq[r].err = "nil"

\* the documents of the collection s that carry the name nm
DocsOf(s, nm) == {i \in DOMAIN s : s[i].name = nm}

\* C1: in every reachable state, whatever the interleaving of ProcessBatch and
\* UpdateTreatedField calls and whatever names a batch repeats, the collection
\* holds at most one document per name.
C1_OneDocPerName ==
    \A i, j \in DOMAIN store : store[i].name = store[j].name => i = j

\* an upsert matched nothing and is about to insert, and meanwhile a document
\* of its name has been inserted
C1_Witness ==
    \E r \in Reqs : \E i \in DOMAIN rq[r].ops :
        /\ rq[r].pc = "bulk"
        /\ rq[r].ops[i] = "insert"
        /\ MatchIndex(store, rq[r].batch[i].name) # 0

\* records of one batch that share a name are equal
SameNameSameRecord(B) ==
    \A i, j \in DOMAIN B : B[i].name = B[j].name => B[i] = B[j]

\* C2 as stated: for any batch B, a successful ProcessBatch(B) run right after
\* a successful ProcessBatch(B) leaves the collection as the first call left
\* it and inserts no document.
C2_Original ==
    \A r \in Reqs :
        (BatchOk(r) /\ hist.second)
            => store = hist.prevPost /\ Count(rq[r].ops, "upserted") = 0

\* C2 (amended): for any batch B in which records that share a name are equal,
\* a successful ProcessBatch(B) run right after a successful ProcessBatch(B)
\* leaves the collection as the first call left it and inserts no document.
C2_Idempotent ==
    \A r \in Reqs :
        (BatchOk(r) /\ hist.second /\ SameNameSameRecord(rq[r].batch))
            => store = hist.prevPost /\ Count(rq[r].ops, "upserted") = 0

\* the second of two successive calls of one batch of two names has returned,
\* and the first call had changed the collection
C2_Witness ==
    \E r \in Reqs :
        /\ BatchOk(r)
        /\ hist.second
        /\ Len(rq[r].batch) = 2
        /\ rq[r].batch[1].name # rq[r].batch[2].name
        /\ Len(store) = 2

\* C3: when BulkWrite reports that the store refused operations of the batch,
\* every other operation of the batch has run, and the collection holds the
\* record of every operation that was not refused (for a name that only that
\* operation of the batch carries).
C3_OthersApplied ==
    \A r \in Reqs :
        (BatchDone(r) /\ rq[r].err = "batchWrite")
            => \A i \in DOMAIN rq[r].ops :
                 rq[r].ops[i] # "rejected"
                   => /\ rq[r].ops[i] \in {"same", "modified", "upserted"}
                      /\ DocsOf(rq[r].batch, rq[r].batch[i].name) = {i}
                           => \E k \in DOMAIN store : store[k] = rq[r].batch[i]

\* a batch of two names returned with one operation refused and the other inserted
C3_Witness ==
    \E r \in Reqs :
        /\ BatchDone(r)
        /\ rq[r].err = "batchWrite"
        /\ Len(rq[r].ops) = 2
        /\ rq[r].batch[1].name # rq[r].batch[2].name
        /\ rq[r].ops[1] = "rejected"
        /\ rq[r].ops[2] = "upserted"

\* the step in which request r runs UpdateTreatedField (UpdateOne is called)
UpdateStep(r) ==
    rq[r].pc = "idle" /\ rq'[r].kind = "update" /\ rq'[r].calls = 1

\* the three outcomes of UpdateTreatedField(name), by the collection it meets
ThreeOutcomes(r) ==
    LET m == MatchIndex(store, rq'[r].name)
    IN  /\ m = 0 => rq'[r].err = "notfound" /\ store' = store
        /\ (m # 0 /\ store[m].treated) => rq'[r].err = "noop" /\ store' = store
        /\ (m # 0 /\ ~store[m].treated)
             => /\ rq'[r].err = "nil"
                /\ store' = [store EXCEPT ![m].treated = TRUE]

\* C4 as stated: UpdateTreatedField(name) has exactly three outcomes, decided
\* by the collection at the moment of the update: not found, no-op, success.
C4_Original ==
    [][\A r \in Reqs : UpdateStep(r) => ThreeOutcomes(r)]_vars

\* C4 (amended): when the UpdateOne call itself returns no error,
\* UpdateTreatedField(name) has exactly three outcomes, decided by the
\* collection at the moment of the update: the not-found error if no document
\* has the name, the no-op error if the document has treated=true, and
\* otherwise treated is set to true and the call succeeds; a failed UpdateOne
\* is a fourth outcome, the update error.
C4_Outcomes ==
    [][\A r \in Reqs :
         (UpdateStep(r) /\ rq'[r].err # "update") => ThreeOutcomes(r)]_vars

\* UpdateTreatedField returned the no-op error for a stored, treated company
C4_Witness ==
    \E r \in Reqs :
        /\ rq[r].pc = "done"
        /\ rq[r].kind = "update"
        /\ rq[r].err = "noop"
        /\ \E k \in DOMAIN store : store[k].name = rq[r].name /\ store[k].treated

\* C5: on a successful ProcessBatch the returned count is the number of
\* operations that changed the collection (an update in place or an insert);
\* an operation that met a document equal to its record adds nothing.
C5_CountIsChanges ==
    \A r \in Reqs : BatchOk(r) => rq[r].n = hist.nchg

\* a successful batch of two records, one that found its document equal and
\* one that inserted
C5_Witness ==
    \E r \in Reqs :
        /\ BatchOk(r)
        /\ Count(rq[r].ops, "same") = 1
        /\ Count(rq[r].ops, "upserted") = 1

\* C6: after a successful ProcessBatch with no concurrent writer, every name
\* of the batch has exactly one document, which equals a submitted record of
\* that name in name, address and treated (the submitted record, for a name
\* that occurs once).
C6_StoredIsSubmitted ==
    \A r \in Reqs :
        BatchOk(r)
            => \A i \in DOMAIN rq[r].batch :
                 LET nm == rq[r].batch[i].name
                 IN  /\ Cardinality(DocsOf(store, nm)) = 1
                     /\ \A k \in DocsOf(store, nm) :
                          \E j \in DocsOf(rq[r].batch, nm) : store[k] = rq[r].batch[j]

\* a successful batch submitted treated=false for a company that was stored
\* with treated=true when the call began
C6_Witness ==
    \E r \in Reqs : \E i \in DOMAIN rq[r].batch :
        /\ BatchOk(r)
        /\ DocsOf(rq[r].batch, rq[r].batch[i].name) = {i}
        /\ ~rq[r].batch[i].treated
        /\ \E k \in DOMAIN hist.pre :
             hist.pre[k].name = rq[r].batch[i].name /\ hist.pre[k].treated

\* the step in which request r runs FetchAllCompanies and gets its result
FetchStep(r) ==
    rq[r].pc = "idle" /\ rq'[r].kind = "fetch" /\ rq'[r].err = "nil"

\* C7: FetchAllCompanies returns every stored record exactly once, in strictly
\* ascending order of name, and leaves the collection unchanged.
C7_FetchSorted ==
    [][\A r \in Reqs :
         FetchStep(r)
           => LET d == rq'[r].data
              IN  /\ Len(d) = Len(store)
                  /\ \A i \in DOMAIN store :
                       Cardinality({j \in DOMAIN d : d[j] = store[i]})
                         = Cardinality({k \in DOMAIN store : store[k] = store[i]})
                  /\ \A j \in 1 .. (Len(d) - 1) : d[j].name < d[j + 1].name
                  /\ store' = store]_vars

\* a fetch returned two records of a collection that holds them in
\* descending order of name
C7_Witness ==
    \E r \in Reqs :
        /\ rq[r].pc = "done"
        /\ rq[r].kind = "fetch"
        /\ Len(rq[r].data) = 2
        /\ Len(store) = 2
        /\ store[1].name > store[2].name

\* C8: ProcessBatch called with an empty sequence returns count 0 and no
\* error, issues no call to the store, and leaves the collection unchanged.
C8_EmptyBatch ==
    [][\A r \in Reqs :
         (/\ rq[r].pc = "idle"
          /\ rq'[r].kind = "batch"
          /\ rq'[r].via = "api"
          /\ rq'[r].batch = << >>)
           => /\ rq'[r].pc = "done"
              /\ rq'[r].n = 0
              /\ rq'[r].err = "nil"
              /\ rq'[r].calls = 0
              /\ store' = store]_vars

\* ProcessBatch returned from a call with an empty sequence, the collection
\* holding a document
C8_Witness ==
    \E r \in Reqs :
        /\ rq[r].pc = "done"
        /\ rq[r].kind = "batch"
        /\ rq[r].via = "api"
        /\ rq[r].batch = << >>
        /\ Len(store) > 0

\* the step in which the batch endpoint takes a request
BatchRequest(r) ==
    rq[r].pc = "idle" /\ rq'[r].kind = "batch" /\ rq'[r].via = "http"

\* C9: the batch endpoint answers 503, calling the store not at all, exactly
\* when the health check that completed last failed; before any health check
\* and after a successful one it does not answer 503.
C9_GateFollowsHealth ==
    [][\A r \in Reqs :
         BatchRequest(r)
           => /\ (lastHealth = "fail") <=> (rq'[r].status = 503)
              /\ rq'[r].status = 503
                   => rq'[r].pc = "done" /\ rq'[r].calls = 0 /\ store' = store]_vars

\* a batch request was answered 503 and no health check has succeeded since
C9_Witness ==
    \E r \in Reqs :
        /\ rq[r].pc = "done"
        /\ rq[r].kind = "batch"
        /\ rq[r].status = 503
        /\ lastHealth = "fail"

\* C10: on every path by which the process exits, after a signal or after a
\* ListenAndServe error, BatchProcessor.Close has been invoked exactly once.
C10_CloseOnceOnExit ==
    mainPc = "exited" => closeCount = 1

\* C11: shutdown after a signal is one ordered sequence: the server stops
\* accepting connections, Shutdown then waits for the requests in flight, and
\* only then is the store connection closed; the connection is never closed
\* while the server accepts requests, and once a signal has started the
\* sequence the process does not exit before the sequence has completed.
C11_ShutdownSequence ==
    /\ sigPc # "wait" => ~listening
    /\ closeCount > 0 => ~listening /\ sigPc = "end"
    /\ (mainPc = "exited" /\ sigPc # "wait") => sigPc = "end" /\ closeCount = 1

\* the operation was applied by the store (it met or left its record stored)
Applied(s) == s \in {"same", "modified", "upserted"}

\* requests r1 and r2 are two ProcessBatch calls that have both returned, and
\* both batches carry the name nm
BothDone(r1, r2, nm) ==
    /\ r1 # r2
    /\ BatchDone(r1) /\ BatchDone(r2)
    /\ DocsOf(rq[r1].batch, nm) # {} /\ DocsOf(rq[r2].batch, nm) # {}

\* the one document of name nm equals, in name, address and treated, a record
\* that r1 or r2 submitted for nm
OneOfTheTwo(r1, r2, nm) ==
    /\ Cardinality(DocsOf(store, nm)) = 1
    /\ \A k \in DocsOf(store, nm) :
         \E r \in {r1, r2} : \E j \in DocsOf(rq[r].batch, nm) : store[k] = rq[r].batch[j]

\* C12: once two concurrent ProcessBatch calls whose batches both carry name
\* n have completed (the store has applied the upserts of n of both), the
\* stored document for n equals, in name, address and treated, the record
\* submitted by one of the two calls, never a mixture of the two; the calls
\* interleave freely, no lock orders them.
C12_LastWriteWins ==
    \A r1, r2 \in Reqs : \A nm \in Names :
        (/\ BothDone(r1, r2, nm)
         /\ \A r \in {r1, r2} : \A j \in DocsOf(rq[r].batch, nm) : Applied(rq[r].ops[j]))
            => OneOfTheTwo(r1, r2, nm)

\* two calls that ran side by side have both succeeded with records of one
\* name that differ in address and in treated, one having inserted and the
\* other having updated the document
C12_Witness ==
    \E r1, r2 \in Reqs :
        /\ r1 # r2
        /\ BatchOk(r1) /\ BatchOk(r2)
        /\ Len(rq[r1].batch) = 1 /\ Len(rq[r2].batch) = 1
        /\ rq[r1].batch[1].name = rq[r2].batch[1].name
        /\ rq[r1].batch[1].address # rq[r2].batch[1].address
        /\ rq[r1].batch[1].treated # rq[r2].batch[1].treated
        /\ rq[r1].ops[1] = "upserted"
        /\ rq[r2].ops[1] = "modified"
        /\ store = <<rq[r2].batch[1]>>

\* C13: UpdateTreatedField(name) changes the name and the address of no
\* document, changes no document but the one of that name, and neither
\* inserts nor removes a document; when it returns the not-found or the no-op
\* error the collection is unchanged.
C13_UpdateFrame ==
    [][\A r \in Reqs :
         UpdateStep(r)
           => /\ Len(store') = Len(store)
              /\ \A i \in DOMAIN store :
                   /\ store'[i].name = store[i].name
                   /\ store'[i].address = store[i].address
                   /\ store[i].name # rq'[r].name => store'[i] = store[i]
              /\ rq'[r].err \in {"notfound", "noop"} => store' = store]_vars

\* UpdateTreatedField succeeded for one of two stored companies, whose address
\* is not the first one, and the other company is still untreated
C13_Witness ==
    \E r \in Reqs : \E k, o \in DOMAIN store :
        /\ rq[r].pc = "done"
        /\ rq[r].kind = "update"
        /\ rq[r].err = "nil"
        /\ store[k].name = rq[r].name
        /\ store[k].treated
        /\ store[k].address = NumAddrs
        /\ store[o].name # rq[r].name
        /\ ~store[o].treated

\* the step in which the update-treated endpoint takes a request
UpdateRequest(r) ==
    rq[r].pc = "idle" /\ rq'[r].kind = "update" /\ rq'[r].via = "http"

\* C14: the update-treated endpoint answers 400, calling the store not at
\* all, when the name parameter is missing or empty; it answers 500 both when
\* no document has the name and when the document is already treated; and it
\* answers 200 only when the call took treated from false to true.
C14_UpdateStatuses ==
    [][\A r \in Reqs :
         UpdateRequest(r)
           => LET nm == rq'[r].name
                  m == MatchIndex(store, nm)
                  st == rq'[r].status
              IN  /\ rq'[r].pc = "done"
                  /\ nm = EmptyName => st = 400 /\ rq'[r].calls = 0 /\ store' = store
                  /\ nm # EmptyName => st \in {200, 500} /\ rq'[r].calls = 1
                  /\ rq'[r].err \in {"notfound", "noop"} => st = 500
                  /\ (nm # EmptyName /\ (m = 0 \/ store[m].treated)) => st = 500
                  /\ st = 200 => /\ m # 0
                                 /\ ~store[m].treated
                                 /\ store'[m].treated]_vars

\* the endpoint answered 500 for the name of a company that is stored and was
\* already treated
C14_Witness ==
    \E r \in Reqs : \E k \in DOMAIN store :
        /\ rq[r].pc = "done"
        /\ rq[r].kind = "update"
        /\ rq[r].status = 500
        /\ rq[r].err = "noop"
        /\ store[k].name = rq[r].name
        /\ Len(store) = 2

\* the names the collection s holds
StoredNames(s) == {s[i].name : i \in DOMAIN s}

\* C15: no step of ProcessBatch, UpdateTreatedField, FetchAllCompanies or
\* HealthCheck removes a stored record: every name stored before a step is
\* stored after it, and the collection never gets shorter.
C15_NoDeletion ==
    [][StoredNames(store) \subseteq StoredNames(store') /\ Len(store') >= Len(store)]_vars

\* a ProcessBatch call has rewritten the document of one of two stored
\* companies
C15_Witness ==
    \E r \in Reqs :
        /\ BatchDone(r)
        /\ Count(rq[r].ops, "modified") > 0
        /\ Cardinality(StoredNames(store)) = 2

\* the collection s is a result of one fully successful ProcessBatch of the
\* batch B of distinct names on the collection pre: the documents of pre keep
\* their places, those whose name B carries hold the record of B, and the
\* records of B for new names have been inserted, each once
SingleRun(pre, B, s) ==
    /\ Len(s) = Len(pre) + Cardinality({j \in DOMAIN B : MatchIndex(pre, B[j].name) = 0})
    /\ \A i \in DOMAIN pre :
         /\ i \in DOMAIN s
         /\ \A j \in DOMAIN B : B[j].name = pre[i].name => s[i] = B[j]
         /\ (\A j \in DOMAIN B : B[j].name # pre[i].name) => s[i] = pre[i]
    /\ \A j \in DOMAIN B : \E k \in DOMAIN s : s[k] = B[j]

\* C16: when a ProcessBatch call on a batch of pairwise distinct names has
\* failed, the store having applied any subset of its operations, and the
\* same batch is submitted again until a call succeeds, with no other writer
\* in between, the collection ends as a single fully successful ProcessBatch
\* of that batch leaves it from the original collection.
C16_RetryConverges ==
    \A r \in Reqs :
        (BatchOk(r) /\ hist.retryOn) => SingleRun(hist.retryPre, rq[r].batch, store)

\* a batch of two new names failed after one of its records was inserted, and
\* the call that submitted it again found that record and inserted the other
C16_Witness ==
    \E r \in Reqs :
        /\ BatchOk(r)
        /\ hist.retryOn
        /\ hist.retryPre = << >>
        /\ Len(rq[r].batch) = 2
        /\ Count(rq[r].ops, "same") = 1
        /\ Count(rq[r].ops, "upserted") = 1

\* BulkWrite of request r returned an error
BulkError(r) == BatchDone(r) /\ rq[r].err \in {"batchWrite", "batchConn", "batchEmpty"}

\* C17: whenever the bulk write reports an error (an operation was refused, or
\* the call failed as a whole), ProcessBatch returns count 0 and a batch
\* error, whatever number of operations the store applied, and the batch
\* endpoint answers 500, the response carrying no processed count.
C17_ErrorCountZero ==
    \A r \in Reqs :
        /\ (BatchDone(r) /\ Count(rq[r].ops, "rejected") > 0) => BulkError(r)
        /\ BulkError(r)
             => /\ rq[r].n = 0
                /\ rq[r].via = "http" => rq[r].status = 500

\* the batch endpoint answered 500 for a batch of two records that the store
\* had both applied, the collection being no longer what it was when the call
\* began
C17_Witness ==
    \E r \in Reqs :
        /\ BulkError(r)
        /\ rq[r].status = 500
        /\ Len(rq[r].ops) = 2
        /\ \A i \in DOMAIN rq[r].ops : rq[r].ops[i] \in {"modified", "upserted"}
        /\ store # hist.pre

\* the step in which the health handler of request r stores the flag
HealthWrite(r) ==
    rq[r].pc = "ping" /\ rq[r].kind = "health" /\ rq'[r].pc = "done"

\* C18: the healthy flag is true after construction and is written by
\* healthCheckHandler only: no step of the batch, fetch-all or update-treated
\* handlers changes it, whatever error the store returns to them; whichever
\* way /health requests overlap, the flag equals the outcome of the request
\* that wrote it last.
C18_FlagWrittenByHealthOnly ==
    [][/\ healthy' # healthy => \E r \in Reqs : HealthWrite(r)
       /\ \A r \in Reqs : HealthWrite(r) => healthy' = rq[r].ping
       /\ lastHealth' = "none" => healthy'
       /\ lastHealth' # "none" => (healthy' <=> lastHealth' = "ok")]_vars

\* two /health requests overlap: one has failed and stored false while the
\* other, whose ping succeeded, has not stored yet
C18_Witness ==
    \E r1, r2 \in Reqs :
        /\ rq[r1].kind = "health" /\ rq[r1].pc = "done" /\ ~rq[r1].ping
        /\ rq[r2].kind = "health" /\ rq[r2].pc = "ping" /\ rq[r2].ping
        /\ ~healthy
        /\ lastHealth = "fail"

\* C19: a batch request that is rejected does not reach the store: the
\* handler checks the healthy flag first (503), then that the body decodes
\* (400), then that the list of companies is not empty (400), and calls
\* ProcessBatch only when the three checks pass; an unhealthy service answers
\* 503 to a malformed and to an empty body too, and a step that answers 400
\* or 503 leaves the collection unchanged.
C19_RejectedBeforeStore ==
    [][\A r \in Reqs :
         BatchRequest(r)
           => LET q == rq'[r]
              IN  /\ ~healthy => q.status = 503
                  /\ (healthy /\ q.body \in {"invalid", "empty"}) => q.status = 400
                  /\ (healthy /\ q.body = "list")
                       => q.pc = "bulk" /\ q.calls = 1 /\ Len(q.batch) > 0
                  /\ q.status \in {400, 503}
                       => q.pc = "done" /\ q.calls = 0 /\ store' = store
                  /\ q.calls > 0 => healthy /\ q.body = "list"]_vars

\* the unhealthy service answered 503 to a body that does not decode, the
\* collection holding a document
C19_Witness ==
    \E r \in Reqs :
        /\ rq[r].pc = "done"
        /\ rq[r].kind = "batch"
        /\ rq[r].body = "invalid"
        /\ rq[r].status = 503
        /\ rq[r].calls = 0
        /\ Len(store) > 0

====
